---- MODULE Spec2Model ----
(***************************************************************************)
(* Conversation flow engine of stroke_bot: the guarded-rule state machine  *)
(* (conversation_engine/state_machine.py), the state -> question lookup    *)
(* (conversation_engine/prompt_generator.py) and the orchestrator          *)
(* (conversation_engine/conversation_flow.py).                             *)
(*                                                                         *)
(* Texts are sequences of one-character strings, so that str.lower() and   *)
(* the substring test of the emergency detector are computed, not assumed. *)
(***************************************************************************)
EXTENDS Integers, Sequences, FiniteSets, TLC

VARIABLES
    definition,         \* the parsed dialogue definition (read-only after load)
    current_state,      \* ConversationStateMachine.current_state
    state_history,      \* ConversationStateMachine.state_history
    responses,          \* ConversationContext.responses, in insertion order
    emergency_detected, \* ConversationContext.emergency_detected
    patient_name,       \* ConversationContext.patient_name
    time_of_day,        \* ConversationContext.time_of_day
    llm_callback,       \* ConversationFlow.llm_callback: "none" or "configured"
    conversation_log,   \* ConversationFlow.conversation_log (events without their timestamp)
    call,               \* history: the last call made on the engine and the state it was made in
    result,             \* history: what that call returned
    keyword_heard,      \* history: a message since the last begin/reset had an emergency keyword
    llm_outcome,        \* history: what llm_callback did in the last call
    clock,              \* history: the wall-clock minute of the day at the last begin
    instances,          \* two ConversationFlow objects built from the same definition, and their contexts
    document,           \* YAMLConversationParser.data, the parsed YAML the validation reads
    issues,             \* what validate_conversation_structure returned for it
    medical_llm,        \* a MedicalLLM object: its emergency_keywords, and what was asked of it
    bot,                \* a StrokeConversationBot object, with its recording manager
    recorder,           \* an AudioRecorder object, and its audio device
    memory              \* a ConversationMemory object

vars == <<definition, current_state, state_history, responses,
          emergency_detected, patient_name, time_of_day, llm_callback,
          conversation_log, call, result, keyword_heard, llm_outcome, clock,
          instances, document, issues, medical_llm, bot, recorder, memory>>

----------------------------------------------------------------------------
(* Bounds *)

\* The event log grows by one entry per begin/submit; calls stop at this length.
\* 11 = one begin and one submit in each of Greeting .. Wrapup.
MaxLog == 11

\* The same bound for the specification that tries the wider set of messages.
MaxWideLog == 5

\* The same bound for the specification with direct state-machine calls.
MaxMachineLog == 2

\* The same bound for the specification with responses that are not texts.
MaxFaultLog == 4

\* The same bound for the specification that begins at every time of the day.
MaxClockLog == 2

\* Calls made, in all, on the two engine instances.
MaxCalls == 6

\* Items in the flow of a document given to the validation.
MaxFlowLen == 3

\* The event-log bound for the specification that builds the engine from
\* each document.
MaxWarnLog == 3

\* Terms in one list given to update_emergency_keywords.
MaxKeywords == 2

\* the conversations one bot records
MaxConversations == 2

\* the answers stored for one recorded conversation
MaxStored == 2

\* the recordings begun on one audio recorder
MaxRecordings == 2

\* the chunks the audio device delivers to one recording
MaxFrames == 2

\* the largest max_history a ConversationMemory is built with
MaxHistory == 2

\* the exchanges added to one ConversationMemory
MaxExchanges == 4

\* Seconds that may have passed on the wall clock when a query reads it.
MaxElapsed == 1

----------------------------------------------------------------------------
(* ConversationState *)

IDLE == "idle"
GREETING == "greeting"
CONSENT == "consent"
KNOWLEDGE_CHECK == "knowledge_check"
GENERAL_WELLBEING == "general_wellbeing"
MEDICATIONS == "medications"
FOLLOWUP_CARE == "followup_care"
LIFESTYLE == "lifestyle"
DAILY_ACTIVITIES == "daily_activities"
RESOURCES == "resources"
WRAPUP == "wrapup"
EMERGENCY_EXIT == "emergency_exit"
COMPLETED == "completed"
ERROR == "error"

----------------------------------------------------------------------------
(* Texts *)

UpperChars == << "A","B","C","D","E","F","G","H","I","J","K","L","M",
                 "N","O","P","Q","R","S","T","U","V","W","X","Y","Z" >>

\* str.lower(), one character
LowerChar(c) ==
    IF \E i \in 1..Len(UpperChars) : UpperChars[i] = c
    THEN << "a","b","c","d","e","f","g","h","i","j","k","l","m",
            "n","o","p","q","r","s","t","u","v","w","x","y","z"
         >>[CHOOSE i \in 1..Len(UpperChars) : UpperChars[i] = c]
    ELSE c

\* str.lower()
Lower(s) == [i \in 1..Len(s) |-> LowerChar(s[i])]

\* Python's `kw in s` for strings
Contains(kw, s) ==
    \E i \in 0..(Len(s) - Len(kw)) : \A j \in 1..Len(kw) : s[i + j] = kw[j]

\* the literal list of _detect_emergency
emergency_keywords ==
    << <<"e","m","e","r","g","e","n","c","y">>,
       <<"9","1","1">>,
       <<"u","r","g","e","n","t">>,
       <<"h","e","l","p">>,
       <<"p","a","i","n">>,
       <<"c","h","e","s","t"," ","p","a","i","n">>,
       <<"c","a","n","'","t"," ","b","r","e","a","t","h","e">>,
       <<"c","a","n","'","t"," ","s","p","e","a","k">>,
       <<"n","u","m","b">>,
       <<"p","a","r","a","l","y","z","e","d">>,
       <<"s","t","r","o","k","e">> >>

\* ConversationStateMachine._detect_emergency
DetectEmergency(response) ==
    \E k \in 1..Len(emergency_keywords) :
        Contains(emergency_keywords[k], Lower(response))

YES == <<"y","e","s">>
NO == <<"n","o">>

----------------------------------------------------------------------------
(* ConversationContext.responses: a dict, kept in insertion order *)

\* key in responses
HasKey(resp, key) == \E i \in 1..Len(resp) : resp[i].key = key

\* responses.get(key); None is modelled by the text <<"None">>, which no message equals
NONE == << "None" >>
Get(resp, key) ==
    IF HasKey(resp, key)
    THEN resp[CHOOSE i \in 1..Len(resp) : resp[i].key = key].value
    ELSE NONE

\* responses[key] = value: an existing key keeps its position, a new key is appended
PutKeepingFirst(resp, key, value) ==
    IF HasKey(resp, key)
    THEN resp
    ELSE Append(resp, [key |-> key, value |-> value])

Put(resp, key, value) ==
    IF HasKey(resp, key)
    THEN [i \in 1..Len(resp) |->
            IF resp[i].key = key THEN [key |-> key, value |-> value] ELSE resp[i]]
    ELSE Append(resp, [key |-> key, value |-> value])

----------------------------------------------------------------------------
(* The transition table *)

Rule(from, to, condition) == [from_state |-> from, to_state |-> to, condition |-> condition]

\* ConversationStateMachine._create_transitions, in declared order
transitions_skipping_followup ==
    << Rule(IDLE, GREETING, "none"),
       Rule(GREETING, CONSENT, "none"),
       Rule(CONSENT, KNOWLEDGE_CHECK, "consent_yes"),
       Rule(CONSENT, EMERGENCY_EXIT, "consent_no"),
       Rule(KNOWLEDGE_CHECK, GENERAL_WELLBEING, "none"),
       Rule(GENERAL_WELLBEING, MEDICATIONS, "none"),
       Rule(MEDICATIONS, LIFESTYLE, "none"),
       Rule(FOLLOWUP_CARE, LIFESTYLE, "none"),
       Rule(LIFESTYLE, DAILY_ACTIVITIES, "none"),
       Rule(DAILY_ACTIVITIES, RESOURCES, "none"),
       Rule(RESOURCES, WRAPUP, "none"),
       Rule(WRAPUP, COMPLETED, "none"),
       Rule(GREETING, EMERGENCY_EXIT, "emergency"),
       Rule(CONSENT, EMERGENCY_EXIT, "emergency"),
       Rule(KNOWLEDGE_CHECK, EMERGENCY_EXIT, "emergency"),
       Rule(GENERAL_WELLBEING, EMERGENCY_EXIT, "emergency"),
       Rule(MEDICATIONS, EMERGENCY_EXIT, "emergency"),
       Rule(FOLLOWUP_CARE, EMERGENCY_EXIT, "emergency"),
       Rule(LIFESTYLE, EMERGENCY_EXIT, "emergency"),
       Rule(DAILY_ACTIVITIES, EMERGENCY_EXIT, "emergency"),
       Rule(RESOURCES, EMERGENCY_EXIT, "emergency"),
       Rule(ERROR, IDLE, "none") >>

transitions_emergency_first ==
    << Rule(GREETING, EMERGENCY_EXIT, "emergency"),
       Rule(CONSENT, EMERGENCY_EXIT, "emergency"),
       Rule(KNOWLEDGE_CHECK, EMERGENCY_EXIT, "emergency"),
       Rule(GENERAL_WELLBEING, EMERGENCY_EXIT, "emergency"),
       Rule(MEDICATIONS, EMERGENCY_EXIT, "emergency"),
       Rule(FOLLOWUP_CARE, EMERGENCY_EXIT, "emergency"),
       Rule(LIFESTYLE, EMERGENCY_EXIT, "emergency"),
       Rule(DAILY_ACTIVITIES, EMERGENCY_EXIT, "emergency"),
       Rule(RESOURCES, EMERGENCY_EXIT, "emergency"),
       Rule(IDLE, GREETING, "none"),
       Rule(GREETING, CONSENT, "none"),
       Rule(CONSENT, KNOWLEDGE_CHECK, "consent_yes"),
       Rule(CONSENT, EMERGENCY_EXIT, "consent_no"),
       Rule(KNOWLEDGE_CHECK, GENERAL_WELLBEING, "none"),
       Rule(GENERAL_WELLBEING, MEDICATIONS, "none"),
       Rule(MEDICATIONS, FOLLOWUP_CARE, "none"),
       Rule(FOLLOWUP_CARE, LIFESTYLE, "none"),
       Rule(LIFESTYLE, DAILY_ACTIVITIES, "none"),
       Rule(DAILY_ACTIVITIES, RESOURCES, "none"),
       Rule(RESOURCES, WRAPUP, "none"),
       Rule(WRAPUP, COMPLETED, "none"),
       Rule(ERROR, IDLE, "none") >>

transitions ==
    << Rule(IDLE, GREETING, "none"),
       Rule(GREETING, CONSENT, "none"),
       Rule(CONSENT, KNOWLEDGE_CHECK, "consent_yes"),
       Rule(CONSENT, EMERGENCY_EXIT, "consent_no"),
       Rule(KNOWLEDGE_CHECK, GENERAL_WELLBEING, "none"),
       Rule(GENERAL_WELLBEING, MEDICATIONS, "none"),
       Rule(MEDICATIONS, FOLLOWUP_CARE, "none"),
       Rule(FOLLOWUP_CARE, LIFESTYLE, "none"),
       Rule(LIFESTYLE, DAILY_ACTIVITIES, "none"),
       Rule(DAILY_ACTIVITIES, RESOURCES, "none"),
       Rule(RESOURCES, WRAPUP, "none"),
       Rule(WRAPUP, COMPLETED, "none"),
       Rule(GREETING, EMERGENCY_EXIT, "emergency"),
       Rule(CONSENT, EMERGENCY_EXIT, "emergency"),
       Rule(KNOWLEDGE_CHECK, EMERGENCY_EXIT, "emergency"),
       Rule(GENERAL_WELLBEING, EMERGENCY_EXIT, "emergency"),
       Rule(MEDICATIONS, EMERGENCY_EXIT, "emergency"),
       Rule(FOLLOWUP_CARE, EMERGENCY_EXIT, "emergency"),
       Rule(LIFESTYLE, EMERGENCY_EXIT, "emergency"),
       Rule(DAILY_ACTIVITIES, EMERGENCY_EXIT, "emergency"),
       Rule(RESOURCES, EMERGENCY_EXIT, "emergency"),
       Rule(ERROR, IDLE, "none") >>

\* the rules' condition lambdas, evaluated on the context
ConditionHoldsUnlessDenied(condition, resp, emergency) ==
    CASE condition = "none"        -> TRUE
      [] condition = "consent_yes" -> Get(resp, "consent") # NO
      [] condition = "consent_no"  -> Get(resp, "consent") = NO
      [] condition = "emergency"   -> emergency

ConditionHoldsWithoutFlag(condition, resp, emergency) ==
    CASE condition = "none"        -> TRUE
      [] condition = "consent_yes" -> Get(resp, "consent") = YES
      [] condition = "consent_no"  -> Get(resp, "consent") = NO
      [] condition = "emergency"   -> TRUE

ConditionHolds(condition, resp, emergency) ==
    CASE condition = "none"        -> TRUE
      [] condition = "consent_yes" -> Get(resp, "consent") = YES
      [] condition = "consent_no"  -> Get(resp, "consent") = NO
      [] condition = "emergency"   -> emergency

\* the test of the loop in _try_transition for rule i
RuleApplies(i, state, resp, emergency) ==
    /\ transitions[i].from_state = state
    /\ ConditionHolds(transitions[i].condition, resp, emergency)

\* _try_transition: the index of the rule it applies, 0 when it returns False
TryTransitionLastMatch(state, resp, emergency) ==
    IF \E i \in 1..Len(transitions) : RuleApplies(i, state, resp, emergency)
    THEN CHOOSE i \in 1..Len(transitions) :
            /\ RuleApplies(i, state, resp, emergency)
            /\ \A j \in (i + 1)..Len(transitions) : ~RuleApplies(j, state, resp, emergency)
    ELSE 0

TryTransition(state, resp, emergency) ==
    IF \E i \in 1..Len(transitions) : RuleApplies(i, state, resp, emergency)
    THEN CHOOSE i \in 1..Len(transitions) :
            /\ RuleApplies(i, state, resp, emergency)
            /\ \A j \in 1..(i - 1) : ~RuleApplies(j, state, resp, emergency)
    ELSE 0

\* ConversationStateMachine.is_conversation_active
is_conversation_active_unless_finished(state) == state \notin { COMPLETED, EMERGENCY_EXIT }
is_conversation_active(state) == state \notin { COMPLETED, EMERGENCY_EXIT, ERROR }

\* ConversationStateMachine.is_emergency_exit
is_emergency_exit(state) == state = EMERGENCY_EXIT

\* ConversationStateMachine.is_completed
is_completed(state) == state = COMPLETED

----------------------------------------------------------------------------
(* Dialogue definition and prompt generator *)

\* the state_to_key dict of PromptGenerator.get_question_by_state ("" for no entry)
state_to_key(state) ==
    CASE state = CONSENT           -> "consent"
      [] state = KNOWLEDGE_CHECK   -> "know_ischemic"
      [] state = GENERAL_WELLBEING -> "general_feeling"
      [] state = MEDICATIONS       -> "meds_pickup"
      [] state = FOLLOWUP_CARE     -> "fup_scheduled"
      [] state = LIFESTYLE         -> "lifestyle_adherence"
      [] state = DAILY_ACTIVITIES  -> "adl_support"
      [] state = RESOURCES         -> "who_to_call"
      [] OTHER                     -> ""

QuestionKeys ==
    { "consent", "know_ischemic", "general_feeling", "meds_pickup",
      "fup_scheduled", "lifestyle_adherence", "adl_support", "who_to_call" }

\* PromptGenerator.get_question_by_state: the key of the question found, "" for None
get_question_by_state(def, state) ==
    IF state_to_key(state) # "" /\ state_to_key(state) \in def.keys
    THEN state_to_key(state)
    ELSE ""

\* A dialogue definition as far as the engine reads it: the question keys of its
\* flow, and whether its greeting template formats with the five names
\* generate_greeting_prompt supplies (str.format raises KeyError otherwise).
Definition(keys, greeting_formats, greeting_empty) ==
    [keys |-> keys, greeting_formats |-> greeting_formats, greeting_empty |-> greeting_empty]

\* greeting_empty: the definition has no greeting template, so that the
\* rendered greeting is the empty text
Definitions ==
    { Definition(QuestionKeys, TRUE, FALSE),
      Definition(QuestionKeys, FALSE, FALSE),
      Definition(QuestionKeys \ {"consent"}, TRUE, FALSE),
      Definition(QuestionKeys \ {"meds_pickup"}, TRUE, FALSE) }

\* the definitions tried on the first turns
WideDefinitions ==
    Definitions \cup { Definition(QuestionKeys, TRUE, TRUE) }

\* the texts the engine returns
Text(kind, key) == [kind |-> kind, key |-> key]

\* the patient messages tried on a whole run
Messages ==
    { YES,
      <<"H","e","l","p">> }

\* the patient messages tried on the first turns
WideMessages ==
    Messages \cup
    { NO,
      <<"N","o">>,
      <<"N","O">>,
      <<"o","k">> }

Names == { "Jane" }

\* minutes in a day; datetime.now() is modelled by the minute of the day
MinutesPerHour == 60
HoursPerDay == 24

\* the wall-clock times at which whole runs are begun
StartTimes == { 9 * MinutesPerHour }

\* the first and the last minute of every hour of the day
DayTimes ==
    { hour * MinutesPerHour + minute :
        hour \in 0..(HoursPerDay - 1), minute \in {0, MinutesPerHour - 1} }

\* datetime.hour
HourOf(now) == now \div MinutesPerHour

\* ConversationStateMachine._get_time_of_day for the hour read from the clock
get_time_of_day_late_noon(hour) ==
    IF 5 <= hour /\ hour < 13 THEN "morning"
    ELSE IF 13 <= hour /\ hour < 17 THEN "afternoon"
    ELSE "evening"

get_time_of_day(hour) ==
    IF 5 <= hour /\ hour < 12 THEN "morning"
    ELSE IF 12 <= hour /\ hour < 17 THEN "afternoon"
    ELSE "evening"

----------------------------------------------------------------------------
(* Orchestrator: ConversationFlow *)

\* ConversationFlow._generate_state_response for the state reached, with no
\* llm_callback configured (the constructor's default)
GenerateStateResponse(def, state) ==
    CASE state = EMERGENCY_EXIT -> Text("emergency_prompt", "")
      [] state = WRAPUP         -> Text("wrapup_prompt", "")
      [] state = COMPLETED      -> Text("completed_text", "")
      [] state = ERROR          -> Text("error_text", "")
      [] OTHER ->
            IF get_question_by_state(def, state) # ""
            THEN Text("question_prompt", get_question_by_state(def, state))
            ELSE Text("recovery_text", "")

\* the record kept in `call`
Call(op, msg, from) == [op |-> op, msg |-> msg, from_state |-> from]

\* an entry of conversation_log, as _log_conversation_event builds it: the event
\* type and, of its data, the state (the timestamp and the texts are left out)
Event(event_type, state) == [event_type |-> event_type, state |-> state]

\* what is fixed when the engine is constructed
construction == <<definition, llm_callback>>

\* the engine after ConversationFlow.__init__, for a definition and a callback
\* drawn from the given sets; `constructed` is what the constructor call gave
InitWith(definitions, callbacks, constructed) ==
    /\ definition \in definitions
    /\ llm_callback \in callbacks
    /\ current_state = IDLE
    /\ state_history = << >>
    /\ responses = << >>
    /\ emergency_detected = FALSE
    /\ patient_name = ""
    /\ time_of_day = ""
    /\ conversation_log = << >>
    /\ call = Call("init", << >>, IDLE)
    /\ result = constructed
    /\ keyword_heard = FALSE
    /\ llm_outcome = "not_called"
    /\ clock = 0

InitFor(definitions, callbacks) == InitWith(definitions, callbacks, Text("", ""))

\* state_history = [self.current_state] of ConversationStateMachine.start_conversation
StartHistoryEmpty(state) == << >>
StartHistory(state) == << state >>

\* ConversationFlow.start_conversation, with ConversationStateMachine.start_conversation,
\* called when the wall clock reads `now`
Begin(name, now) ==
    /\ call' = Call("begin", << >>, current_state)
    /\ keyword_heard' = FALSE
    /\ llm_outcome' = "not_called"
    /\ clock' = now
    /\ responses' = << >>
    /\ emergency_detected' = FALSE
    /\ patient_name' = name
    /\ time_of_day' = get_time_of_day(HourOf(now))
    /\ state_history' = StartHistory(GREETING)
    /\ IF definition.greeting_formats
       THEN /\ current_state' = GREETING
            /\ conversation_log' =
                 Append(conversation_log, Event("conversation_started", ""))
            /\ result' = IF definition.greeting_empty
                         THEN Text("", "")
                         ELSE Text("greeting", "")
       ELSE \* generate_greeting_prompt raised: the except branch
            /\ current_state' = ERROR
            /\ conversation_log' = conversation_log
            /\ result' = Text("start_failed_text", "")
    /\ UNCHANGED construction

\* process_response's update of the flag: set on a match, otherwise left alone
NewEmergencyFlagOverwritten(old, response) == DetectEmergency(response)
NewEmergencyFlag(old, response) == old \/ DetectEmergency(response)

\* ConversationStateMachine.process_response(question_key, response): the answer
\* is stored, the detector runs, one transition is tried.  A response that is
\* not a text (None) makes _detect_emergency raise after the answer is stored;
\* the except branch then sets the state to ERROR.
MachineStepErrorOnMiss(question_key, response) ==
    LET resp1 == Put(responses, question_key, response)
        emer1 == NewEmergencyFlag(emergency_detected, response)
        r     == TryTransition(current_state, resp1, emer1)
    IN  /\ responses' = resp1
        /\ IF response = NONE
           THEN /\ current_state' = ERROR
                /\ UNCHANGED <<emergency_detected, state_history>>
           ELSE /\ emergency_detected' = emer1
                /\ IF r = 0
                   THEN /\ current_state' = ERROR
                        /\ UNCHANGED state_history
                   ELSE /\ current_state' = transitions[r].to_state
                        /\ state_history' = Append(state_history, transitions[r].to_state)

MachineStep(question_key, response) ==
    LET resp1 == Put(responses, question_key, response)
        emer1 == NewEmergencyFlag(emergency_detected, response)
        r     == TryTransition(current_state, resp1, emer1)
    IN  /\ responses' = resp1
        /\ IF response = NONE
           THEN /\ current_state' = ERROR
                /\ UNCHANGED <<emergency_detected, state_history>>
           ELSE /\ emergency_detected' = emer1
                /\ IF r = 0
                   THEN UNCHANGED <<current_state, state_history>>
                   ELSE /\ current_state' = transitions[r].to_state
                        /\ state_history' = Append(state_history, transitions[r].to_state)

\* the value process_response returns
MachineStepSucceeds(question_key, response) ==
    /\ response # NONE
    /\ TryTransition(current_state,
                     Put(responses, question_key, response),
                     NewEmergencyFlag(emergency_detected, response)) # 0

\* the llm_callback part of _generate_state_response: the callback's text for
\* the rendered prompt, or the rendered prompt when the callback raised
ApplyGeneratorOrFail(raw, outcome) ==
    IF outcome = "returned" THEN Text("llm_response", raw.key) ELSE Text("error_text", "")
ApplyGenerator(raw, outcome) ==
    IF outcome = "returned" THEN Text("llm_response", raw.key) ELSE raw

\* _generate_state_response calls llm_callback only on the branch that renders
\* a question prompt
GeneratorCalled(raw) == llm_callback = "configured" /\ raw.kind = "question_prompt"

\* the branch of ConversationFlow.process_patient_response for a state with a
\* bound question
ProcessResponse(question_key, response) ==
    /\ MachineStep(question_key, response)
    /\ IF MachineStepSucceeds(question_key, response)
       THEN LET raw == GenerateStateResponse(definition, current_state')
            IN  IF GeneratorCalled(raw)
                THEN \E outcome \in {"returned", "raised"} :
                        /\ llm_outcome' = outcome
                        /\ result' = ApplyGenerator(raw, outcome)
                ELSE /\ llm_outcome' = "not_called"
                     /\ result' = raw
       ELSE /\ llm_outcome' = "not_called"
            /\ result' = Text("please_repeat_text", "")

\* the branch of _handle_special_state that calls _try_transition
SpecialStateAdvancesAlways(state) == TRUE
SpecialStateAdvances(state) == state = GREETING

\* ConversationFlow._handle_special_state(state, response)
HandleSpecialState(state) ==
    /\ UNCHANGED <<responses, emergency_detected>>
    /\ llm_outcome' = "not_called"
    /\ IF SpecialStateAdvances(state)
       THEN LET r == TryTransition(current_state, responses, emergency_detected)
            IN  /\ IF r = 0
                   THEN UNCHANGED <<current_state, state_history>>
                   ELSE /\ current_state' = transitions[r].to_state
                        /\ state_history' = Append(state_history, transitions[r].to_state)
                /\ result' = IF "consent" \in definition.keys
                             THEN Text("question_prompt", "consent")
                             ELSE Text("not_sure_text", "")
       ELSE /\ UNCHANGED <<current_state, state_history>>
            /\ result' = IF state = IDLE
                         THEN Text("let_me_start_text", "")
                         ELSE Text("not_sure_text", "")

\* ConversationFlow.process_patient_response(response)
Submit(response) ==
    /\ call' = Call("submit", response, current_state)
    /\ keyword_heard' = (keyword_heard \/ (response # NONE /\ DetectEmergency(response)))
    /\ conversation_log' =
         Append(conversation_log, Event("patient_response", current_state))
    /\ IF get_question_by_state(definition, current_state) # ""
       THEN ProcessResponse(get_question_by_state(definition, current_state), response)
       ELSE HandleSpecialState(current_state)
    /\ UNCHANGED <<construction, patient_name, time_of_day, clock>>

\* the consent check of YAMLConversationParser.validate_conversation_structure
MissingConsentIssue(def) ==
    IF "consent" \in def.keys THEN << >> ELSE << "Missing consent question" >>

\* the dict ConversationFlow.get_conversation_status returns, `elapsed` seconds
\* after start_time
StatusResult(elapsed) ==
    [ kind                  |-> "status",
      current_state         |-> current_state,
      is_active             |-> is_conversation_active(current_state),
      is_emergency          |-> is_emergency_exit(current_state),
      is_completed          |-> is_completed(current_state),
      patient_name          |-> patient_name,
      responses_count       |-> Len(responses),
      conversation_duration |-> elapsed ]

\* ConversationFlow.get_conversation_status
Status ==
    /\ call' = Call("status", << >>, current_state)
    /\ llm_outcome' = "not_called"
    /\ \E elapsed \in 0..MaxElapsed : result' = StatusResult(elapsed)
    /\ UNCHANGED <<construction, current_state, state_history, responses,
                   emergency_detected, patient_name, time_of_day,
                   conversation_log, keyword_heard, clock>>

\* the dict ConversationFlow.get_conversation_summary returns (the state
\* machine's summary plus the log and the validation issues)
SummaryResult(elapsed) ==
    [ kind               |-> "summary",
      patient_name       |-> patient_name,
      duration_seconds   |-> elapsed,
      final_state        |-> current_state,
      total_responses    |-> Len(responses),
      emergency_detected |-> emergency_detected,
      state_history      |-> state_history,
      responses          |-> responses,
      conversation_log   |-> conversation_log,
      validation_issues  |-> MissingConsentIssue(definition) ]

\* ConversationFlow.get_conversation_summary
ExportSummaryLogged ==
    /\ call' = Call("export", << >>, current_state)
    /\ llm_outcome' = "not_called"
    /\ \E elapsed \in 0..MaxElapsed : result' = SummaryResult(elapsed)
    /\ conversation_log' = Append(conversation_log, Event("summary_exported", current_state))
    /\ UNCHANGED <<construction, current_state, state_history, responses,
                   emergency_detected, patient_name, time_of_day,
                   keyword_heard, clock>>

ExportSummary ==
    /\ call' = Call("export", << >>, current_state)
    /\ llm_outcome' = "not_called"
    /\ \E elapsed \in 0..MaxElapsed : result' = SummaryResult(elapsed)
    /\ UNCHANGED <<construction, current_state, state_history, responses,
                   emergency_detected, patient_name, time_of_day,
                   conversation_log, keyword_heard, clock>>

\* ConversationFlow.reset_conversation, with ConversationStateMachine.reset
ResetKeepingLog ==
    /\ call' = Call("reset", << >>, current_state)
    /\ keyword_heard' = FALSE
    /\ llm_outcome' = "not_called"
    /\ current_state' = IDLE
    /\ responses' = << >>
    /\ emergency_detected' = FALSE
    /\ patient_name' = ""
    /\ time_of_day' = ""
    /\ state_history' = << >>
    /\ result' = Text("", "")
    /\ UNCHANGED <<construction, clock, conversation_log>>

Reset ==
    /\ call' = Call("reset", << >>, current_state)
    /\ keyword_heard' = FALSE
    /\ llm_outcome' = "not_called"
    /\ current_state' = IDLE
    /\ responses' = << >>
    /\ emergency_detected' = FALSE
    /\ patient_name' = ""
    /\ time_of_day' = ""
    /\ state_history' = << >>
    /\ conversation_log' = << >>
    /\ result' = Text("", "")
    /\ UNCHANGED <<construction, clock>>

\* the calls that do not append to the event log
Queries ==
    \/ Status
    \/ ExportSummary
    \/ Reset

----------------------------------------------------------------------------
(* Two engine instances *)

TwoInstances == {1, 2}

\* what one engine holds: current_state, state_history and, in its context,
\* responses and emergency_detected
NewEngine ==
    [ current_state      |-> IDLE,
      state_history      |-> << >>,
      responses          |-> << >>,
      emergency_detected |-> FALSE ]

\* ConversationStateMachine.start_conversation on an engine, with the except
\* branch of ConversationFlow.start_conversation
EngineBeginFor(def, e) ==
    [ current_state      |-> IF def.greeting_formats THEN GREETING ELSE ERROR,
      state_history      |-> StartHistory(GREETING),
      responses          |-> << >>,
      emergency_detected |-> FALSE ]

\* ConversationFlow.process_patient_response on an engine
EngineSubmitFor(def, e, response) ==
    LET question_key == get_question_by_state(def, e.current_state)
        resp1 == IF question_key # ""
                 THEN Put(e.responses, question_key, response)
                 ELSE e.responses
        emer1 == IF question_key # ""
                 THEN NewEmergencyFlag(e.emergency_detected, response)
                 ELSE e.emergency_detected
        r     == IF question_key # "" \/ SpecialStateAdvances(e.current_state)
                 THEN TryTransition(e.current_state, resp1, emer1)
                 ELSE 0
    IN  [ current_state      |-> IF r = 0 THEN e.current_state ELSE transitions[r].to_state,
          state_history      |-> IF r = 0
                                 THEN e.state_history
                                 ELSE Append(e.state_history, transitions[r].to_state),
          responses          |-> resp1,
          emergency_detected |-> emer1 ]

EngineSubmit(e, response) == EngineSubmitFor(definition, e, response)

\* one call on an engine; status and export read the engine only
Ops == { "begin", "submit", "status", "export", "reset" }
EngineCallFor(def, e, op, response) ==
    CASE op = "begin"  -> EngineBeginFor(def, e)
      [] op = "submit" -> EngineSubmitFor(def, e, response)
      [] op = "reset"  -> NewEngine
      [] OTHER         -> e

EngineCall(e, op, response) == EngineCallFor(definition, e, op, response)

\* the engines that calls of begin, submit and reset reach from the given
\* ones, for a definition
RECURSIVE ReachableFrom(_, _, _)
ReachableFrom(def, seen, frontier) ==
    IF frontier = {} THEN seen
    ELSE LET next == { EngineCallFor(def, e, op, response) :
                          e \in frontier, op \in Ops, response \in Messages } \ seen
         IN  ReachableFrom(def, seen \cup next, next)

\* the engines reachable from a newly constructed one
ReachableEngines(def) == ReachableFrom(def, {NewEngine}, {NewEngine})

\* ConversationContext(...): the reference of the object a constructor call
\* returns, given the objects that exist
SharedContext(heap) == 1
NewContext(heap) == Len(heap) + 1

\* the context object written through a reference
Store(heap, ref, context) ==
    IF ref > Len(heap) THEN Append(heap, context) ELSE [heap EXCEPT ![ref] = context]

\* the context record of an engine value
ContextOf(e) == [responses |-> e.responses, emergency_detected |-> e.emergency_detected]

\* the fields an instance holds itself, with the reference to its context
Held(e, ref) ==
    [current_state |-> e.current_state, state_history |-> e.state_history, context |-> ref]

\* what instance i is, read through its context reference
View(i) ==
    LET held == instances.engines[i]
        ctx  == instances.heap[held.context]
    IN  [ current_state      |-> held.current_state,
          state_history      |-> held.state_history,
          responses          |-> ctx.responses,
          emergency_detected |-> ctx.emergency_detected ]

\* two ConversationFlow(yaml_file_path) constructions, one after the other;
\* `alone` is each instance as its own calls, run alone, leave it
ConstructedInstances ==
    LET ref1  == NewContext(<< >>)
        heap1 == Store(<< >>, ref1, ContextOf(NewEngine))
        ref2  == NewContext(heap1)
        heap2 == Store(heap1, ref2, ContextOf(NewEngine))
    IN  [ engines |-> [i \in TwoInstances |-> Held(NewEngine, IF i = 1 THEN ref1 ELSE ref2)],
          heap    |-> heap2,
          alone   |-> [i \in TwoInstances |-> NewEngine],
          last    |-> 0,
          calls   |-> 0 ]

\* a call on instance i: begin and reset bind a new context object, submit
\* writes into the context the instance holds
InstanceCall(i, op, response) ==
    LET e   == EngineCall(View(i), op, response)
        ref == IF op \in {"begin", "reset"}
               THEN NewContext(instances.heap)
               ELSE instances.engines[i].context
    IN  /\ instances.calls < MaxCalls
        /\ instances' =
             [ engines |-> [instances.engines EXCEPT ![i] = Held(e, ref)],
               heap    |-> IF op \in {"status", "export"}
                           THEN instances.heap
                           ELSE Store(instances.heap, ref, ContextOf(e)),
               alone   |-> [instances.alone EXCEPT
                              ![i] = EngineCall(instances.alone[i], op, response)],
               last    |-> i,
               calls   |-> instances.calls + 1 ]

----------------------------------------------------------------------------
(* Validation: YAMLConversationParser *)

\* the items of a flow: {"section": name} and {"key": name, ...}
Marker(name) == [kind |-> "section", name |-> name]
QuestionItem(key) == [kind |-> "key", name |-> key]

\* Question.section of a question that stands before every marker (None)
NoSection == "None"

\* self.data.get('flow', [])
FlowOf(doc) == IF "flow" \in doc.top THEN doc.flow ELSE << >>

\* the loop of get_questions from item i on, current_section being the last
\* marker seen
RECURSIVE QuestionsFrom(_, _, _)
QuestionsFrom(flow, i, current_section) ==
    IF i > Len(flow) THEN << >>
    ELSE IF flow[i].kind = "section"
         THEN QuestionsFrom(flow, i + 1, flow[i].name)
         ELSE << [key |-> flow[i].name, section |-> current_section] >>
              \o QuestionsFrom(flow, i + 1, current_section)

\* YAMLConversationParser.get_questions
get_questions(doc) == QuestionsFrom(FlowOf(doc), 1, NoSection)

\* YAMLConversationParser.get_sections: the marker names, in order, repeats kept
get_sections(doc) ==
    LET markers == SelectSeq(FlowOf(doc), LAMBDA item : item.kind = "section")
    IN  [i \in 1..Len(markers) |-> markers[i].name]

\* YAMLConversationParser.get_questions_by_section: the questions whose section
\* has that name
get_questions_by_section(doc, section_name) ==
    SelectSeq(get_questions(doc), LAMBDA q : q.section = section_name)

\* YAMLConversationParser.get_consent_question found a question
HasConsentQuestion(doc) ==
    \E i \in 1..Len(get_questions(doc)) : get_questions(doc)[i].key = "consent"

\* an entry of the report
Issue(kind, name) == [kind |-> kind, name |-> name]

required_sections == << "meta", "greeting", "flow", "wrapup" >>

\* YAMLConversationParser.validate_conversation_structure
validate_conversation_structure(doc) ==
    LET missing  == SelectSeq(required_sections, LAMBDA section : section \notin doc.top)
        sections == get_sections(doc)
        empty    == SelectSeq(sections,
                              LAMBDA section : get_questions_by_section(doc, section) = << >>)
    IN  [i \in 1..Len(missing) |-> Issue("missing_section", missing[i])]
        \o (IF HasConsentQuestion(doc) THEN << >> ELSE << Issue("missing_consent", "") >>)
        \o [i \in 1..Len(empty) |-> Issue("empty_section", empty[i])]

\* the flow items and the documents the validation is tried on
FlowItems ==
    { Marker("A"), Marker("B"), QuestionItem("consent"), QuestionItem("general_feeling") }
Flows == UNION { [1..n -> FlowItems] : n \in 0..MaxFlowLen }
Documents ==
    { doc \in [top : SUBSET {"meta", "greeting", "flow", "wrapup"}, flow : Flows] :
        "flow" \in doc.top \/ doc.flow = << >> }

\* parser.validate_conversation_structure() on the loaded document
Validate ==
    /\ issues' = validate_conversation_structure(document)
    /\ UNCHANGED document

----------------------------------------------------------------------------
(* MedicalLLM: the extensible keyword list *)

\* the elements of a list
Range(seq) == { seq[i] : i \in 1..Len(seq) }

\* self.emergency_keywords of MedicalLLM.__init__: the engine's eleven terms
\* and five more
medical_keywords ==
    emergency_keywords \o
    << <<"h","e","a","r","t"," ","a","t","t","a","c","k">>,
       <<"s","e","v","e","r","e">>,
       <<"c","r","i","t","i","c","a","l">>,
       <<"d","y","i","n","g">>,
       <<"u","n","c","o","n","s","c","i","o","u","s">> >>

\* MedicalLLM._detect_emergency over a keyword list held as its set of terms
\* (the list is only iterated by any() and measured by len())
medical_detect_emergency(keywords, text) ==
    \E keyword \in keywords : Contains(keyword, Lower(text))

\* MedicalLLM.update_emergency_keywords: extend, then list(set(...)), which
\* keeps each term once in an order nothing reads
update_emergency_keywords_replacing(old, keywords) == Range(keywords)
update_emergency_keywords(old, keywords) == old \cup Range(keywords)

\* the terms callers add, one of them already in the list, and the lists of
\* them
AddedTerms ==
    { <<"d","i","z","z","y">>, <<"h","e","l","p">>, <<"o","k">> }
KeywordLists == UNION { [1..n -> AddedTerms] : n \in 0..MaxKeywords }

\* the texts given to the detector
LLMTexts ==
    { <<"H","e","l","p">>, <<"o","k">>, YES, <<"D","i","z","z","y">> }

\* MedicalLLM.__init__; `detected` is history: the texts the detector has
\* answered True for
ConstructedLLM ==
    [ emergency_keywords |-> Range(medical_keywords),
      last               |-> "init",
      added              |-> << >>,
      detected           |-> {} ]

\* a call of update_emergency_keywords(keywords)
UpdateEmergencyKeywords(keywords) ==
    medical_llm' =
        [ medical_llm EXCEPT
            !.emergency_keywords = update_emergency_keywords(@, keywords),
            !.last = "update",
            !.added = keywords ]

\* a call of _detect_emergency(text)
LLMDetectEmergency(text) ==
    medical_llm' =
        [ medical_llm EXCEPT
            !.last = "detect",
            !.detected =
               IF medical_detect_emergency(medical_llm.emergency_keywords, text)
               THEN @ \cup {text}
               ELSE @ ]

----------------------------------------------------------------------------
(* StrokeConversationBot, RecordingManager *)

\* what a call on the bot or its recording manager returns: True, False,
\* None, a reply or a summary
Outcome(kind) == [kind |-> kind, conversation |-> 0, responses |-> {}, flow |-> ""]

\* the strings MedicalLLM.generate_medical_response returns: the emergency
\* text, the post-processed reply of the model, or the apology of its except
\* branch; process_patient_input has the same apology in its own
Replies == { "emergency", "generated", "apology" }

\* ConversationStorage.create_conversation: a new row, active, no responses
NewConversation == [status |-> "active", responses |-> {}]

\* the last call: its name, what the audio device did in it (the stream
\* opened, the file was saved), and the patient input given to it
BotCall(op, opened, saved) ==
    [op |-> op, opened |-> opened, saved |-> saved, input |-> << >>]

\* StrokeConversationBot.__init__ followed by initialize: the flow, the
\* recording manager (no conversation, not recording), its audio recorder
\* (not recording, no frames) and the conversation table of its storage.
\* session is history: "open" from a start that returned an id until a stop
\* is called, "ended" from a stop that returned a summary until a start is
\* called
ConstructedBot ==
    [ is_running              |-> FALSE,
      conversation_flow       |-> NewEngine,
      current_conversation_id |-> 0,
      is_recording            |-> FALSE,
      recorder_is_recording   |-> FALSE,
      audio_frames            |-> FALSE,
      storage                 |-> << >>,
      session                 |-> "none",
      call                    |-> BotCall("initialize", TRUE, TRUE),
      result                  |-> Outcome("True") ]

\* AudioRecorder.start_recording: refused while recording, and False when
\* the stream does not open
RecorderStarts(b, opened) == ~b.recorder_is_recording /\ opened

\* RecordingManager.start_conversation_recording: the conversation row is
\* created and its id kept before the audio recording is started
StartConversationRecording(b, opened) ==
    LET id      == Len(b.storage) + 1
        created == [b EXCEPT !.storage = Append(@, NewConversation),
                             !.current_conversation_id = id]
    IN  IF RecorderStarts(b, opened)
        THEN [created EXCEPT !.recorder_is_recording = TRUE,
                             !.audio_frames = FALSE,
                             !.is_recording = TRUE,
                             !.session = "open"]
        ELSE [created EXCEPT !.session = IF @ = "open" THEN "open" ELSE "none"]

\* StrokeConversationBot.start_conversation
BotStart(opened) ==
    /\ bot.is_running \/ Len(bot.storage) < MaxConversations
    /\ LET called == [bot EXCEPT !.call = BotCall("start_conversation", opened, TRUE)]
       IN  bot' =
             IF bot.is_running
             THEN [called EXCEPT !.result = Outcome("False")]
             ELSE IF ~RecorderStarts(bot, opened)
             THEN [StartConversationRecording(called, opened) EXCEPT
                     !.result = Outcome("False")]
             ELSE [StartConversationRecording(called, opened) EXCEPT
                     !.conversation_flow = EngineBeginFor(definition, @),
                     !.is_running = TRUE,
                     !.result = Outcome("True")]

\* AudioRecorder._audio_callback: the stream delivers a chunk while recording
AudioCallback ==
    /\ bot.recorder_is_recording
    /\ ~bot.audio_frames
    /\ bot' = [bot EXCEPT !.audio_frames = TRUE,
                          !.call = BotCall("audio_callback", TRUE, TRUE)]

\* RecordingManager.add_conversation_response has a conversation to add to
\* (ConversationStorage.add_response then inserts the row and returns True)
AddAccepted(b) == b.current_conversation_id # 0

\* RecordingManager.add_conversation_response: a row with the question key
\* and the response text
AddConversationResponse(b, question_key, response_text) ==
    IF AddAccepted(b)
    THEN [b EXCEPT !.storage[b.current_conversation_id].responses =
                      @ \cup { <<question_key, response_text>> }]
    ELSE b

\* the key process_patient_input stores an input under: that of the question
\* of the state the flow is in after it has taken the input
StoredKey(def, before, after) == get_question_by_state(def, after.current_state)

\* the text ConversationFlow.process_patient_response returns on an engine
\* (the bot's flow has no llm_callback); no rule of the table leads to its
\* own from-state, so a transition was taken when the state differs
EngineResponseFor(def, e, response) ==
    LET question_key == get_question_by_state(def, e.current_state)
        after        == EngineSubmitFor(def, e, response)
    IN  IF question_key # ""
        THEN IF after.current_state # e.current_state
             THEN GenerateStateResponse(def, after.current_state)
             ELSE Text("please_repeat_text", "")
        ELSE IF e.current_state = GREETING
        THEN IF "consent" \in def.keys
             THEN Text("question_prompt", "consent")
             ELSE Text("not_sure_text", "")
        ELSE IF e.current_state = IDLE
        THEN Text("let_me_start_text", "")
        ELSE Text("not_sure_text", "")

\* the prompt texts a dialogue definition may have for a question or for its
\* wrap-up message: one without an emergency keyword and one that names the
\* condition
PromptWordings ==
    { <<"O","k","a","y","?">>,
      <<"a"," ","s","t","r","o","k","e">> }

\* PromptGenerator.generate_emergency_prompt: the disclaimer of the definition,
\* followed by 'Stroke warning signs to watch for:' (its first word is kept)
EmergencyPromptText == <<"S","t","r","o","k","e">>

\* the texts fixed in conversation_flow.py ('Thank you for completing the
\* assessment...', 'I'm sorry, I didn't quite catch that...', ...): none has
\* an emergency keyword
FixedText == <<"T","h","a","n","k","s">>

\* the characters of the text the flow returned, given the wording the
\* definition has for the prompt
FlowText(returned, wording) ==
    CASE returned.kind \in {"question_prompt", "wrapup_prompt"} -> wording
      [] returned.kind = "emergency_prompt"                     -> EmergencyPromptText
      [] OTHER                                                  -> FixedText

\* MedicalLLM.generate_medical_response on the text the flow returned: the
\* emergency text when the detector matches that text, else the reply of the
\* model, or the apology when the model did not answer
MedicalReply(user_prompt, answered) ==
    IF medical_detect_emergency(ConstructedLLM.emergency_keywords, user_prompt)
    THEN "emergency"
    ELSE IF answered THEN "generated" ELSE "apology"

\* StrokeConversationBot.process_patient_input: the flow takes the input, the
\* LLM gives the reply to the text the flow returned, and the input is stored
BotProcessInput(response, wording, answered) ==
    LET called == [bot EXCEPT !.call = [BotCall("process_patient_input", TRUE, TRUE)
                                          EXCEPT !.input = response]]
        flow   == EngineSubmitFor(definition, bot.conversation_flow, response)
        text   == FlowText(EngineResponseFor(definition, bot.conversation_flow, response),
                           wording)
        key    == StoredKey(definition, bot.conversation_flow, flow)
        id     == bot.current_conversation_id
    IN  /\ IF bot.is_running /\ id # 0
           THEN Cardinality(bot.storage[id].responses) < MaxStored
           ELSE TRUE
        /\ bot' =
          IF ~bot.is_running
          THEN [called EXCEPT !.result = Outcome("None")]
          ELSE [(IF key # ""
                 THEN AddConversationResponse(called, key, response)
                 ELSE called) EXCEPT
                  !.conversation_flow = flow,
                  !.result = Outcome(MedicalReply(text, answered))]

\* AudioRecorder.stop_recording gives the path of the saved file: None when
\* no recording is in progress, when no frame was stored, or when saving the
\* file raises
RecorderSaves(b, saved) == b.recorder_is_recording /\ b.audio_frames /\ saved

\* RecordingManager.stop_conversation_recording has a recording to stop
HasRecording(b) == b.is_recording /\ b.current_conversation_id # 0

\* RecordingManager.stop_conversation_recording returns a summary
Stops(b, saved) == HasRecording(b) /\ RecorderSaves(b, saved)

\* ConversationStorage.get_conversation_summary of the current conversation
StorageSummary(b) ==
    [ kind         |-> "summary",
      conversation |-> b.current_conversation_id,
      responses    |-> b.storage[b.current_conversation_id].responses,
      flow         |-> "" ]

\* the summary end_conversation returns: the storage's summary of the
\* conversation, with the flow's summary added
SummaryOf(b) == [StorageSummary(b) EXCEPT !.flow = b.conversation_flow.current_state]

\* RecordingManager.stop_conversation_recording: without a saved audio file
\* the manager returns None before it clears is_recording and the id
StopKeepingId(b, saved) ==
    LET stopped == [b EXCEPT !.session = IF Stops(b, saved) THEN "ended" ELSE "none"]
    IN  IF ~HasRecording(b)
        THEN stopped
        ELSE IF ~RecorderSaves(b, saved)
        THEN [stopped EXCEPT !.recorder_is_recording = FALSE]
        ELSE [stopped EXCEPT
                !.recorder_is_recording = FALSE,
                !.is_recording = FALSE,
                !.storage[b.current_conversation_id].status = "completed"]
StopConversationRecording(b, saved) ==
    LET stopped == [b EXCEPT !.session = IF Stops(b, saved) THEN "ended" ELSE "none"]
    IN  IF ~HasRecording(b)
        THEN stopped
        ELSE IF ~RecorderSaves(b, saved)
        THEN [stopped EXCEPT !.recorder_is_recording = FALSE]
        ELSE [stopped EXCEPT
                !.recorder_is_recording = FALSE,
                !.is_recording = FALSE,
                !.storage[b.current_conversation_id].status = "completed",
                !.current_conversation_id = 0]

\* StrokeConversationBot.end_conversation
BotEnd(saved) ==
    LET called == [bot EXCEPT !.call = BotCall("end_conversation", TRUE, saved)]
    IN  bot' =
          IF ~bot.is_running
          THEN [called EXCEPT !.result = Outcome("None")]
          ELSE [StopConversationRecording(called, saved) EXCEPT
                  !.is_running = FALSE,
                  !.result = IF Stops(bot, saved) THEN SummaryOf(bot) ELSE Outcome("None")]

\* a call of start_conversation_recording on the recording manager
ManagerStart(opened) ==
    /\ Len(bot.storage) < MaxConversations
    /\ bot' = [StartConversationRecording(bot, opened) EXCEPT
                 !.call = BotCall("start_conversation_recording", opened, TRUE),
                 !.result = IF RecorderStarts(bot, opened)
                            THEN [Outcome("id") EXCEPT !.conversation = Len(bot.storage) + 1]
                            ELSE Outcome("None")]

\* a call of add_conversation_response on the recording manager
ManagerAdd(question_key, response_text) ==
    /\ IF AddAccepted(bot)
       THEN Cardinality(bot.storage[bot.current_conversation_id].responses) < MaxStored
       ELSE TRUE
    /\ bot' = [AddConversationResponse(bot, question_key, response_text) EXCEPT
                 !.call = BotCall("add_conversation_response", TRUE, TRUE),
                 !.result = IF AddAccepted(bot) THEN Outcome("True") ELSE Outcome("False")]

\* a call of stop_conversation_recording on the recording manager
ManagerStop(saved) ==
    bot' = [StopConversationRecording(bot, saved) EXCEPT
              !.call = BotCall("stop_conversation_recording", TRUE, saved),
              !.result = IF Stops(bot, saved) THEN StorageSummary(bot) ELSE Outcome("None")]

----------------------------------------------------------------------------
(* AudioRecorder *)

\* the last call on the recorder, and what the audio device did in it
RecorderCall(op, opened, saved) == [op |-> op, opened |-> opened, saved |-> saved]

\* AudioRecorder.__init__: no stream, not recording, no frames; open_streams
\* counts the streams of the device that were opened and not closed, started
\* the recordings begun, and files lists the frames of each file written
ConstructedRecorder ==
    [ is_recording |-> FALSE,
      stream       |-> FALSE,
      audio_frames |-> 0,
      open_streams |-> 0,
      started      |-> 0,
      files        |-> << >>,
      call         |-> RecorderCall("init", TRUE, TRUE),
      result       |-> "None" ]

\* AudioRecorder.start_recording: refused while is_recording; else a stream is
\* opened and kept in self.stream, and audio_frames is emptied
StartRecording(opened) ==
    /\ IF ~recorder.is_recording /\ opened
       THEN recorder.started < MaxRecordings
       ELSE TRUE
    /\ LET called == [recorder EXCEPT !.call = RecorderCall("start_recording", opened, TRUE)]
       IN  recorder' =
             IF recorder.is_recording
             THEN [called EXCEPT !.result = "False"]
             ELSE IF ~opened
             THEN [called EXCEPT !.result = "False"]
             ELSE [called EXCEPT
                     !.stream = TRUE,
                     !.open_streams = @ + 1,
                     !.is_recording = TRUE,
                     !.audio_frames = 0,
                     !.started = @ + 1,
                     !.result = "True"]

\* AudioRecorder._audio_callback: an open stream delivers a chunk, stored
\* while is_recording
RecorderAudioCallback ==
    /\ recorder.open_streams > 0
    /\ recorder.is_recording
    /\ recorder.audio_frames < MaxFrames
    /\ recorder' = [recorder EXCEPT !.audio_frames = @ + 1,
                                    !.call = RecorderCall("audio_callback", TRUE, TRUE)]

\* AudioRecorder.pause_recording
PauseRecording ==
    recorder' = [recorder EXCEPT
                   !.is_recording = FALSE,
                   !.call = RecorderCall("pause_recording", TRUE, TRUE),
                   !.result = "None"]

\* AudioRecorder.resume_recording
ResumeRecording ==
    recorder' = [recorder EXCEPT
                   !.is_recording = @ \/ recorder.stream,
                   !.call = RecorderCall("resume_recording", TRUE, TRUE),
                   !.result = "None"]

\* AudioRecorder.stop_recording: None unless is_recording; else the stream is
\* closed, and the frames are written when there are any (None when
\* _save_audio_file raises)
StopRecording(saved) ==
    LET called == [recorder EXCEPT !.call = RecorderCall("stop_recording", TRUE, saved)]
        closed == [called EXCEPT
                     !.is_recording = FALSE,
                     !.open_streams = IF recorder.stream THEN @ - 1 ELSE @,
                     !.stream = FALSE]
    IN  recorder' =
          IF ~recorder.is_recording
          THEN [called EXCEPT !.result = "None"]
          ELSE IF recorder.audio_frames > 0 /\ saved
          THEN [closed EXCEPT !.files = Append(@, recorder.audio_frames),
                              !.result = "path"]
          ELSE [closed EXCEPT !.result = "None"]

----------------------------------------------------------------------------
(* ConversationMemory *)

\* the default of max_history
DefaultMaxHistory == 50

\* ConversationMemory.__init__(max_history); added is history: the exchanges
\* added so far
ConstructedMemory(max_history) ==
    [ max_history          |-> max_history,
      conversation_history |-> << >>,
      added                |-> 0 ]

\* the Python slice history[-n:] for n >= 0: the last n elements, and for
\* n = 0 the slice [0:], which is the whole list
LastSlice(history, n) ==
    IF n = 0 \/ n >= Len(history)
    THEN history
    ELSE SubSeq(history, Len(history) - n + 1, Len(history))

\* ConversationMemory.add_exchange(role, content); the content is the number
\* of the exchange
AddExchange(role) ==
    /\ memory.added < MaxExchanges
    /\ LET exchange == [role |-> role, content |-> memory.added + 1]
           appended == Append(memory.conversation_history, exchange)
       IN  memory' =
             [memory EXCEPT
                !.added = @ + 1,
                !.conversation_history =
                   IF Len(appended) > memory.max_history
                   THEN LastSlice(appended, memory.max_history)
                   ELSE appended]

----------------------------------------------------------------------------
(* Specifications *)

\* the variables a call on the single engine does not touch
outside == <<instances, document, issues, medical_llm, bot, recorder, memory>>

\* a report before the validation has run
NotValidated == << [kind |-> "not_validated", name |-> ""] >>

\* a document with the four top-level keys and a consent question in a section
WellFormedDocument ==
    [ top  |-> {"meta", "greeting", "flow", "wrapup"},
      flow |-> << Marker("consent"), QuestionItem("consent") >> ]

InitDevices ==
    /\ medical_llm = ConstructedLLM
    /\ bot = ConstructedBot
    /\ recorder = ConstructedRecorder

InitExtensions ==
    /\ InitDevices
    /\ memory = ConstructedMemory(DefaultMaxHistory)

InitOutsideFor(documents) ==
    /\ InitExtensions
    /\ instances = ConstructedInstances
    /\ document \in documents
    /\ issues = NotValidated

InitOutside == InitOutsideFor({WellFormedDocument})

Init == InitFor(Definitions, {"none"}) /\ InitOutside

\* a session driven through the orchestrator, whole runs
Next ==
    /\ UNCHANGED outside
    /\ \/ /\ Len(conversation_log) < MaxLog
          /\ \/ \E name \in Names, now \in StartTimes : Begin(name, now)
             \/ \E response \in Messages : Submit(response)
       \/ Queries

Spec == Init /\ [][Next]_vars

\* the engine constructed from the wider set of definitions, with or without
\* an llm_callback
InitWide == InitFor(WideDefinitions, {"none", "configured"}) /\ InitOutside

\* a session driven through the orchestrator, first turns with more messages
NextWide ==
    /\ UNCHANGED outside
    /\ \/ /\ Len(conversation_log) < MaxWideLog
          /\ \/ \E name \in Names, now \in StartTimes : Begin(name, now)
             \/ \E response \in WideMessages : Submit(response)
       \/ Queries

SpecWide == InitWide /\ [][NextWide]_vars

\* ConversationStateMachine.process_response called by the host itself, on
\* flow.state_machine
MachineProcessResponse(question_key, response) ==
    /\ call' = Call("process_response", response, current_state)
    /\ keyword_heard' = (keyword_heard \/ (response # NONE /\ DetectEmergency(response)))
    /\ llm_outcome' = "not_called"
    /\ MachineStep(question_key, response)
    /\ result' = Text(IF MachineStepSucceeds(question_key, response) THEN "True" ELSE "False", "")
    /\ UNCHANGED <<construction, patient_name, time_of_day, conversation_log, clock>>

\* a session in which the host also drives the state machine directly
NextMachine ==
    /\ UNCHANGED outside
    /\ \/ /\ Len(conversation_log) < MaxMachineLog
          /\ \/ \E name \in Names, now \in StartTimes : Begin(name, now)
             \/ \E response \in Messages : Submit(response)
       \/ \E question_key \in { "consent" }, response \in Messages :
             MachineProcessResponse(question_key, response)
       \/ Queries

SpecMachine == Init /\ [][NextMachine]_vars

\* a session in which the host may pass a response that is not a text
NextFault ==
    /\ UNCHANGED outside
    /\ \/ /\ Len(conversation_log) < MaxFaultLog
          /\ \/ \E name \in Names, now \in StartTimes : Begin(name, now)
             \/ \E response \in { YES, NONE } : Submit(response)
       \/ Queries

SpecFault == Init /\ [][NextFault]_vars

\* sessions begun at any hour of the day
NextClock ==
    /\ UNCHANGED outside
    /\ \/ /\ Len(conversation_log) < MaxClockLog
          /\ \/ \E name \in Names, now \in DayTimes : Begin(name, now)
             \/ \E response \in Messages : Submit(response)
       \/ Queries

SpecClock == Init /\ [][NextClock]_vars

\* the single engine's variables
single == <<definition, current_state, state_history, responses,
            emergency_detected, patient_name, time_of_day, llm_callback,
            conversation_log, call, result, keyword_heard, llm_outcome, clock>>

\* calls on two instances, in any interleaving
NextTwo ==
    /\ \E i \in TwoInstances, op \in Ops, response \in Messages :
          InstanceCall(i, op, response)
    /\ UNCHANGED <<single, document, issues, medical_llm, bot, recorder, memory>>

SpecTwo == Init /\ [][NextTwo]_vars

\* the validation run on each document
InitValidate == InitFor(Definitions, {"none"}) /\ InitOutsideFor(Documents)

NextValidate ==
    /\ Validate
    /\ UNCHANGED <<single, instances, medical_llm, bot, recorder, memory>>

SpecValidate == InitValidate /\ [][NextValidate]_vars

\* calls on a MedicalLLM object
NextLLM ==
    /\ \/ \E keywords \in KeywordLists : UpdateEmergencyKeywords(keywords)
       \/ \E text \in LLMTexts : LLMDetectEmergency(text)
    /\ UNCHANGED <<single, instances, document, issues, bot, recorder, memory>>

SpecLLM == Init /\ [][NextLLM]_vars

\* the definitions the bot is tried on: the complete one, and one whose flow
\* has no consent question
BotDefinitions ==
    { Definition(QuestionKeys, TRUE, FALSE),
      Definition(QuestionKeys \ {"consent"}, TRUE, FALSE) }

InitBot == InitFor(BotDefinitions, {"none"}) /\ InitOutside

\* calls on a StrokeConversationBot, and the chunks of its audio stream
NextBot ==
    /\ \/ \E opened \in BOOLEAN : BotStart(opened)
       \/ AudioCallback
       \/ \E response \in Messages, wording \in PromptWordings, answered \in BOOLEAN :
             BotProcessInput(response, wording, answered)
       \/ \E saved \in BOOLEAN : BotEnd(saved)
    /\ UNCHANGED <<single, instances, document, issues, medical_llm, recorder, memory>>

SpecBot == InitBot /\ [][NextBot]_vars

\* calls on a RecordingManager, and the chunks of its audio stream
NextRecording ==
    /\ \/ \E opened \in BOOLEAN : ManagerStart(opened)
       \/ AudioCallback
       \/ \E question_key \in { "test_question", "consent" }, response_text \in Messages :
             ManagerAdd(question_key, response_text)
       \/ \E saved \in BOOLEAN : ManagerStop(saved)
    /\ UNCHANGED <<single, instances, document, issues, medical_llm, recorder, memory>>

SpecRecording == Init /\ [][NextRecording]_vars

\* calls on an AudioRecorder, and the chunks of its audio stream
NextRecorder ==
    /\ \/ \E opened \in BOOLEAN : StartRecording(opened)
       \/ RecorderAudioCallback
       \/ PauseRecording
       \/ ResumeRecording
       \/ \E saved \in BOOLEAN : StopRecording(saved)
    /\ UNCHANGED <<single, instances, document, issues, medical_llm, bot, memory>>

SpecRecorder == Init /\ [][NextRecorder]_vars

\* a ConversationMemory built with each max_history
InitMemory ==
    /\ InitFor(Definitions, {"none"})
    /\ InitDevices
    /\ instances = ConstructedInstances
    /\ document = WellFormedDocument
    /\ issues = NotValidated
    /\ memory \in { ConstructedMemory(max_history) : max_history \in 0..MaxHistory }

\* calls of add_exchange
NextMemory ==
    /\ \E role \in { "user", "assistant" } : AddExchange(role)
    /\ UNCHANGED <<single, instances, document, issues, medical_llm, bot, recorder>>

SpecMemory == InitMemory /\ [][NextMemory]_vars

\* what yaml.safe_load gives for a file with no content: None, not a mapping
EmptyFile == [top |-> {}, flow |-> << >>, none |-> TRUE]
IsNone(doc) == "none" \in DOMAIN doc

\* the documents a YAML file can parse to
LoadedDocuments == Documents \cup { EmptyFile }

\* get_greeting_template and generate_greeting_prompt on a document: a missing
\* greeting section defaults to the template '', which str.format renders
GreetingRenders(doc) == TRUE

\* the definition the engine reads from a document: the keys of its questions,
\* and its greeting template (one with text, when the section is there)
DefinitionOf(doc) ==
    Definition({ get_questions(doc)[i].key : i \in 1..Len(get_questions(doc)) },
               GreetingRenders(doc),
               "greeting" \notin doc.top)

\* ConversationFlow.__init__ on a document: the parser loads it, the prompt
\* generator reads it (get_meta calls self.data.get, which raises on None),
\* and the validation report is computed (and logged)
InitWarn ==
    /\ document \in LoadedDocuments
    /\ InitExtensions
    /\ instances = ConstructedInstances
    /\ IF IsNone(document)
       THEN /\ issues = NotValidated
            /\ InitWith({DefinitionOf(document)}, {"none"}, Text("AttributeError", ""))
       ELSE /\ issues = validate_conversation_structure(document)
            /\ InitFor({DefinitionOf(document)}, {"none"})

\* the first turns of a session on an engine built from each document; there
\* is no engine to call when the constructor raised
NextWarn ==
    /\ ~IsNone(document)
    /\ UNCHANGED outside
    /\ \/ /\ Len(conversation_log) < MaxWarnLog
          /\ \/ \E name \in Names, now \in StartTimes : Begin(name, now)
             \/ \E response \in Messages : Submit(response)
       \/ Queries

SpecWarn == InitWarn /\ [][NextWarn]_vars

----------------------------------------------------------------------------
(* Properties *)

GreetingThroughResources ==
    { GREETING, CONSENT, KNOWLEDGE_CHECK, GENERAL_WELLBEING, MEDICATIONS,
      FOLLOWUP_CARE, LIFESTYLE, DAILY_ACTIVITIES, RESOURCES }

TerminalStates == { COMPLETED, EMERGENCY_EXIT, ERROR }

\* the loaded definition has a question for every key of state_to_key
AllQuestionsDefined == definition.keys = QuestionKeys

\* C1: a submit made in a state from Greeting through Resources with a message
\* that contains an emergency keyword leaves the engine in EmergencyExit, not
\* active, and returns the emergency prompt.
C1_EmergencyShortCircuit ==
    ( /\ AllQuestionsDefined
      /\ call.op = "submit"
      /\ call.from_state \in GreetingThroughResources
      /\ DetectEmergency(call.msg) )
    => ( /\ current_state = EMERGENCY_EXIT
         /\ ~is_conversation_active(current_state)
         /\ result = Text("emergency_prompt", "") )

\* C2: a submit made in a non-terminal state other than Idle with a message that
\* contains an emergency keyword leaves emergency_detected true.
C2_UnconditionalDetection ==
    ( /\ AllQuestionsDefined
      /\ call.op = "submit"
      /\ call.from_state \notin (TerminalStates \cup {IDLE})
      /\ DetectEmergency(call.msg) )
    => emergency_detected

\* C3: once emergency_detected is true, a submit, status or exportSummary call
\* leaves it true.
C3_MonotonicEmergencyFlag ==
    [][ (emergency_detected /\ call'.op \in {"submit", "status", "export"})
        => emergency_detected' ]_vars

\* C3 witness: the flag is set and a later submit without a keyword has run
C3_Witness ==
    /\ emergency_detected
    /\ call.op = "submit"
    /\ ~DetectEmergency(call.msg)
    /\ get_question_by_state(definition, call.from_state) # ""

\* C4: a submit made in Completed, EmergencyExit or Error takes no transition
\* and fails with no error: state, history, answers and flag are as before.
C4_TerminalStatesAbsorbSubmit ==
    [][ (call'.op = "submit" /\ current_state \in TerminalStates)
        => ( /\ current_state' = current_state
             /\ state_history' = state_history
             /\ responses' = responses
             /\ emergency_detected' = emergency_detected
             /\ result' = Text("not_sure_text", "") ) ]_vars

\* C4 witness: a submit has been made in Completed
C4_Witness ==
    /\ call.op = "submit"
    /\ call.from_state = COMPLETED
    /\ current_state = COMPLETED

\* C5: a submit of "no" in any letter case made in Consent leaves the engine in
\* EmergencyExit.
C5_ConsentDenial ==
    ( /\ AllQuestionsDefined
      /\ call.op = "submit"
      /\ call.from_state = CONSENT
      /\ Lower(call.msg) = NO )
    => current_state = EMERGENCY_EXIT

AfterConsent ==
    { KNOWLEDGE_CHECK, GENERAL_WELLBEING, MEDICATIONS, FOLLOWUP_CARE, LIFESTYLE,
      DAILY_ACTIVITIES, RESOURCES, WRAPUP, COMPLETED }

\* C6: whenever the current state is KnowledgeCheck or a later normal-flow
\* state, the recorded consent answer is "yes".
C6_NoQuestionnaireWithoutConsent ==
    current_state \in AfterConsent => Get(responses, "consent") = YES

\* C6 witness: the questionnaire has been walked through to Wrapup
C6_Witness ==
    /\ current_state = WRAPUP
    /\ call.op = "submit"
    /\ Get(responses, "consent") = YES

NormalSequence ==
    << GREETING, CONSENT, KNOWLEDGE_CHECK, GENERAL_WELLBEING, MEDICATIONS,
       FOLLOWUP_CARE, LIFESTYLE, DAILY_ACTIVITIES, RESOURCES, WRAPUP, COMPLETED >>

\* the successor the normal sequence declares for a state before Completed
DeclaredSuccessor(state) ==
    NormalSequence[1 + CHOOSE i \in 1..(Len(NormalSequence) - 1) : NormalSequence[i] = state]

\* C7: a submit made in a state of the normal sequence with a message that has
\* no emergency keyword and is not a denial moves to the declared successor.
C7_LinearAdvance ==
    ( /\ AllQuestionsDefined
      /\ call.op = "submit"
      /\ \E i \in 1..(Len(NormalSequence) - 1) : NormalSequence[i] = call.from_state
      /\ ~DetectEmergency(call.msg)
      /\ Lower(call.msg) # NO )
    => current_state = DeclaredSuccessor(call.from_state)

\* the submits made since the last begin, counted in the event log
SubmitsThisSession ==
    LET starts == { i \in 1..Len(conversation_log) :
                      conversation_log[i].event_type = "conversation_started" }
    IN  IF starts = {} THEN 0
        ELSE Len(conversation_log) - (CHOOSE i \in starts : \A j \in starts : j <= i)

\* a begin, then one submit for each state Greeting .. Wrapup, consent answered
\* "yes" and no emergency keyword in any message
FullNormalRun ==
    /\ AllQuestionsDefined
    /\ ~keyword_heard
    /\ Get(responses, "consent") = YES
    /\ SubmitsThisSession >= Len(NormalSequence) - 1

\* C8: a session with consent "yes" and no emergency keyword is in Completed,
\* and not active, once each state of the normal sequence has had its submit.
C8_NormalCompletion ==
    FullNormalRun => (current_state = COMPLETED /\ ~is_conversation_active(current_state))

\* C9: the summary exported after a full normal run has one answer per question
\* asked, in answering order, and a history from Greeting to Completed.
C9_ExportRoundTrip ==
    (FullNormalRun /\ call.op = "export")
    => ( /\ [i \in 1..Len(result.responses) |-> result.responses[i].key]
              = << "consent", "know_ischemic", "general_feeling", "meds_pickup",
                   "fup_scheduled", "lifestyle_adherence", "adl_support", "who_to_call" >>
         /\ result.state_history # << >>
         /\ result.state_history[1] = GREETING
         /\ result.state_history[Len(result.state_history)] = COMPLETED )

\* C10: the conversation is inactive exactly in Completed, EmergencyExit and
\* Error, and status() reports it so.
C10_ActiveFlag ==
    /\ is_conversation_active(current_state) <=> current_state \notin TerminalStates
    /\ call.op = "status" => (result.is_active <=> current_state \notin TerminalStates)

\* C10 witness: status() has been read in Completed and says not active
C10_Witness ==
    /\ call.op = "status"
    /\ current_state = COMPLETED
    /\ ~result.is_active

\* a text with no characters
IsEmptyText(text) == text = Text("", "")

FreshEngine ==
    /\ current_state = IDLE
    /\ state_history = << >>
    /\ responses = << >>
    /\ ~emergency_detected
    /\ patient_name = ""
    /\ time_of_day = ""
    /\ conversation_log = << >>

\* C12: reset, called in any state, returns the engine to Idle with empty
\* history, no answers, the flag false, blank identity fields and an empty
\* event log, and a begin that follows leaves what a begin on a freshly
\* constructed engine leaves.
C12_Reset ==
    /\ [](call.op = "reset" => FreshEngine)
    /\ [][(call.op = "reset" /\ call'.op = "begin") =>
            /\ state_history' = << GREETING >>
            /\ responses' = << >>
            /\ ~emergency_detected'
            /\ current_state' = IF definition.greeting_formats THEN GREETING ELSE ERROR
            /\ conversation_log' =
                 IF definition.greeting_formats
                 THEN << Event("conversation_started", "") >>
                 ELSE << >>]_vars

\* reset called after a whole questionnaire, with events in the log
C12_Witness ==
    /\ call.op = "reset"
    /\ call.from_state = WRAPUP
    /\ FreshEngine

\* a query result with its elapsed-time field blanked
WithoutDuration(r) ==
    IF r.kind = "status"
    THEN [r EXCEPT !.conversation_duration = 0]
    ELSE [r EXCEPT !.duration_seconds = 0]

\* a step that leaves the engine's own state alone
EngineUnchanged ==
    UNCHANGED <<definition, current_state, state_history, responses,
                emergency_detected, patient_name, time_of_day, conversation_log>>

\* C13 (as stated): status or exportSummary called again with no call in
\* between returns the identical result, and the calls change nothing in the
\* engine.
C13_QueriesIdentical ==
    [][(call'.op \in {"status", "export"}) =>
          /\ EngineUnchanged
          /\ (call.op = call'.op => result' = result)]_vars

\* C13 (amended): status or exportSummary called again with no call in between
\* returns the same result except for the elapsed-duration field, and the
\* calls change nothing in the engine.
C13_ReadOnlyQueries ==
    [][(call'.op \in {"status", "export"}) =>
          /\ EngineUnchanged
          /\ (call.op = call'.op => WithoutDuration(result') = WithoutDuration(result))]_vars

\* status called in the middle of a questionnaire, a second after the start
C13_Witness ==
    /\ call.op = "status"
    /\ current_state = KNOWLEDGE_CHECK
    /\ result.conversation_duration = MaxElapsed

\* the state has a question bound to it that the definition defines
HasBoundQuestion(state) == get_question_by_state(definition, state) # ""

\* C14: when the configured generator raises during a submit, submit returns
\* the rendered prompt of the new state, not an error text, and the answer
\* recorded and the transition taken by that submit are kept.
C14_GeneratorFailureFallback ==
    [][(call'.op = "submit" /\ llm_outcome' = "raised") =>
          /\ result' = GenerateStateResponse(definition, current_state')
          /\ result'.kind = "question_prompt"
          /\ current_state' # ERROR
          /\ current_state' # current_state
          /\ state_history' = Append(state_history, current_state')
          /\ responses' = Put(responses,
                              get_question_by_state(definition, current_state),
                              call'.msg)]_vars

\* a submit that moved to the knowledge check while the generator raised
C14_Witness ==
    /\ call.op = "submit"
    /\ llm_callback = "configured"
    /\ llm_outcome = "raised"
    /\ call.from_state = CONSENT
    /\ current_state = KNOWLEDGE_CHECK

\* C15: with a generator configured that does not fail, the text returned by
\* begin and by every submit that renders a prompt (the greeting, the consent
\* prompt, each question prompt) is the generator's output; with none
\* configured the raw rendered text is returned.
C15_GeneratorPassThrough ==
    LET renders ==
          \/ call.op = "begin" /\ current_state = GREETING
          \/ /\ call.op = "submit"
             /\ current_state # call.from_state
             /\ HasBoundQuestion(current_state)
    IN  (  /\ AllQuestionsDefined
           /\ ~definition.greeting_empty
           /\ renders
           /\ llm_outcome # "raised" )
        => (result.kind = "llm_response") = (llm_callback = "configured")

\* the call about to be made meets an unexpected exception: the greeting
\* template cannot be rendered, or the response is not a text
FaultIn(op, msg) ==
    \/ op = "begin" /\ ~definition.greeting_formats
    \/ op = "submit" /\ msg = NONE /\ HasBoundQuestion(current_state)

\* C16: when an unexpected exception occurs inside begin or submit, the caller
\* gets a fixed apologetic text, and the current state, the history, the
\* answers and the emergency flag equal their values before the call.
C16_FaultPreservesSession ==
    [][(call'.op \in {"begin", "submit"} /\ FaultIn(call'.op, call'.msg)) =>
          /\ result' \in { Text("start_failed_text", ""), Text("please_repeat_text", "") }
          /\ UNCHANGED <<current_state, state_history, responses, emergency_detected>>]_vars

\* submit(message) in the current state would take a transition
SubmitAdvances(message) ==
    IF HasBoundQuestion(current_state)
    THEN MachineStepSucceeds(get_question_by_state(definition, current_state), message)
    ELSE /\ SpecialStateAdvances(current_state)
         /\ TryTransition(current_state, responses, emergency_detected) # 0

\* the submit just made left no rule of the (old) current state applicable
TransitionMiss ==
    /\ call'.op = "submit"
    /\ TryTransition(current_state, responses', emergency_detected') = 0

\* C17 (as stated): when a submit finds no applicable rule, state and history
\* are unchanged, the engine is not in Error, status reports the same state,
\* and a later submit in the same state can still take a transition.
C17_MissKeepsRetryOpen ==
    [][TransitionMiss =>
          /\ UNCHANGED <<current_state, state_history>>
          /\ current_state' # ERROR
          /\ StatusResult(0)'.current_state = current_state
          /\ (\E message \in WideMessages : SubmitAdvances(message))']_vars

\* C17 (amended): when a submit finds no applicable rule, state and history
\* are unchanged, the engine is not in Error and status reports the same
\* state; when the state has a bound question, a later submit in the same
\* state can still take a transition.
C17_TransitionMiss ==
    [][TransitionMiss =>
          /\ UNCHANGED <<current_state, state_history>>
          /\ current_state' # ERROR
          /\ StatusResult(0)'.current_state = current_state
          /\ HasBoundQuestion(current_state) =>
                (\E message \in WideMessages : SubmitAdvances(message))']_vars

\* a Consent answer that is neither yes nor no and holds no keyword
C17_Witness ==
    /\ call.op = "submit"
    /\ call.msg = <<"o","k">>
    /\ call.from_state = CONSENT
    /\ current_state = CONSENT
    /\ HasBoundQuestion(CONSENT)
    /\ result = Text("please_repeat_text", "")

\* C18: for two instances built from the same definition, every interleaving
\* of calls leaves each instance with the state, history, answers and flag its
\* own calls alone would leave, and a call on one instance changes neither the
\* other instance nor the definition.
C18_SessionIsolation ==
    /\ [](\A i \in TwoInstances : View(i) = instances.alone[i])
    /\ [][/\ definition' = definition
          /\ \A i \in TwoInstances \ {instances'.last} : View(i)' = View(i)]_vars

\* one instance in the questionnaire with an answer, the other just begun
C18_Witness ==
    /\ View(1).current_state = KNOWLEDGE_CHECK
    /\ View(1).responses # << >>
    /\ View(2).current_state = GREETING
    /\ View(2).responses = << >>
    /\ instances.last = 1

\* C19: for every wall-clock hour h in 0..23 at session start, time_of_day is
\* "morning" iff 5 <= h < 12, "afternoon" iff 12 <= h < 17 and "evening"
\* otherwise: one bucket for each hour.
C19_TimeOfDayBuckets ==
    call.op = "begin" =>
        LET h == HourOf(clock)
        IN  /\ h \in 0..(HoursPerDay - 1)
            /\ time_of_day \in {"morning", "afternoon", "evening"}
            /\ (time_of_day = "morning") = (5 <= h /\ h < 12)
            /\ (time_of_day = "afternoon") = (12 <= h /\ h < 17)
            /\ (time_of_day = "evening") = (h < 5 \/ 17 <= h)

\* a session begun in the last minute of the hour of noon
C19_Witness ==
    /\ call.op = "begin"
    /\ clock = 12 * MinutesPerHour + (MinutesPerHour - 1)
    /\ time_of_day = "afternoon"

\* how many entries of a report satisfy a test
CountIssues(report, Test(_)) == Cardinality({ i \in 1..Len(report) : Test(report[i]) })

\* the markers of a flow with zero questions under them: the next item is a
\* marker, or there is none
EmptyMarkers(flow) ==
    { i \in 1..Len(flow) :
        /\ flow[i].kind = "section"
        /\ (i = Len(flow) \/ flow[i + 1].kind = "section") }

\* C20: validate_conversation_structure reports one issue for each absent
\* top-level key among meta, greeting, flow, wrapup, one issue when no question
\* has key "consent", and one issue for every section marker with zero
\* questions under it, also when two markers carry the same name; the report
\* is empty exactly when none of these defects is present.
C20_ValidationReport ==
    issues # NotValidated =>
        LET flow     == FlowOf(document)
            absent   == { required_sections[i] : i \in 1..Len(required_sections) } \ document.top
            consent  == \E i \in 1..Len(flow) : flow[i] = QuestionItem("consent")
        IN  /\ \A section \in { required_sections[i] : i \in 1..Len(required_sections) } :
                  CountIssues(issues, LAMBDA issue : issue = Issue("missing_section", section))
                    = IF section \in absent THEN 1 ELSE 0
            /\ CountIssues(issues, LAMBDA issue : issue.kind = "missing_consent")
                 = IF consent THEN 0 ELSE 1
            /\ CountIssues(issues, LAMBDA issue : issue.kind = "empty_section")
                 = Cardinality(EmptyMarkers(flow))
            /\ (issues = << >>) = (absent = {} /\ consent /\ EmptyMarkers(flow) = {})

\* C21: for a document with a defect the validation reports (a missing
\* top-level section, no consent question, an empty section), construction
\* succeeds, begin returns the greeting and leaves the engine in Greeting, and
\* every submit returns a text and leaves the engine out of the Error state.
C21_WarningsDoNotBlock ==
    (IsNone(document) \/ issues \notin { << >>, NotValidated }) =>
        /\ call.op = "init" => result = Text("", "")
        /\ call.op = "begin" =>
              /\ current_state = GREETING
              /\ result = IF "greeting" \in document.top
                          THEN Text("greeting", "")
                          ELSE Text("", "")
        /\ call.op = "submit" =>
              /\ current_state # ERROR
              /\ result.kind \notin {"", "error_text", "start_failed_text"}

\* C22: the MedicalLLM keyword list never loses a term: after every extension
\* call each term that was in the list is still in it and each added term is
\* in it, and every text detected as an emergency before is still detected.
C22_KeywordListOnlyGrows ==
    /\ [][medical_llm.emergency_keywords \subseteq medical_llm'.emergency_keywords]_vars
    /\ [](/\ Range(medical_keywords) \subseteq medical_llm.emergency_keywords
          /\ medical_llm.last = "update" =>
                Range(medical_llm.added) \subseteq medical_llm.emergency_keywords
          /\ \A text \in medical_llm.detected :
                medical_detect_emergency(medical_llm.emergency_keywords, text))

\* a list holding a new term and one already there was added, after "Help"
\* and, following an earlier extension, "ok" had been detected
C22_Witness ==
    /\ medical_llm.last = "update"
    /\ medical_llm.added = << <<"d","i","z","z","y">>, <<"h","e","l","p">> >>
    /\ medical_llm.detected = { <<"H","e","l","p">>, <<"o","k">> }
    /\ Cardinality(medical_llm.emergency_keywords) = Len(medical_keywords) + 2

\* C23: after a begin or submit has returned, emergency_detected implies that
\* the session is halted: the current state is EmergencyExit or Error.
C23_EmergencyFlagImpliesHalted ==
    ( /\ AllQuestionsDefined
      /\ call.op \in {"begin", "submit"}
      /\ emergency_detected )
    => current_state \in {EMERGENCY_EXIT, ERROR}

\* C24: each submit (and each process_response) applies at most one rule, the
\* first in declared order whose from-state is the current state and whose
\* guard is absent or true; the state changes by that rule only, the history
\* grows by at most one entry, and process_response returns True exactly when
\* a rule was applied.
C24_FirstMatchWins ==
    [][call'.op \in {"submit", "process_response"} =>
          LET applied    == state_history' # state_history
              Enabled(i) == RuleApplies(i, current_state, responses', emergency_detected')
          IN  /\ applied =>
                    \E i \in 1..Len(transitions) :
                        /\ Enabled(i)
                        /\ \A j \in 1..(i - 1) : ~Enabled(j)
                        /\ current_state' = transitions[i].to_state
                        /\ state_history' = Append(state_history, transitions[i].to_state)
              /\ ~applied => current_state' = current_state
              /\ call'.op = "process_response" =>
                    (result' = Text("True", "")) = applied]_vars

\* a submit in KnowledgeCheck with a keyword: the successor rule and the
\* emergency rule both hold, and the first of them was applied
C24_Witness ==
    /\ call.op = "submit"
    /\ call.from_state = KNOWLEDGE_CHECK
    /\ emergency_detected
    /\ current_state = GENERAL_WELLBEING

\* the normal-flow rules of a state that hold on a context: every rule of the
\* state but its emergency rule
EnabledNormalRules(state, resp, emergency) ==
    { i \in 1..Len(transitions) :
        /\ transitions[i].condition # "emergency"
        /\ RuleApplies(i, state, resp, emergency) }

\* C25: the emergency rule of a state is applied only in a turn in which no
\* normal-flow rule of that state holds; when a normal-flow rule and the
\* emergency rule both hold, the normal-flow rule is the one taken.
C25_NormalRuleBeforeEmergencyRule ==
    [][(call'.op \in {"submit", "process_response"} /\ state_history' # state_history) =>
          LET normal == EnabledNormalRules(current_state, responses', emergency_detected')
              r      == TryTransition(current_state, responses', emergency_detected')
          IN  /\ r # 0
              /\ current_state' = transitions[r].to_state
              /\ transitions[r].condition = "emergency" => normal = {}
              /\ normal # {} => r \in normal]_vars

\* a keyword answer in Consent: neither consent rule holds and the emergency
\* rule is applied
C25_Witness ==
    /\ call.op = "submit"
    /\ call.from_state = CONSENT
    /\ call.msg = <<"H","e","l","p">>
    /\ emergency_detected
    /\ current_state = EMERGENCY_EXIT

\* the states from which some reachable engine, given some message, moves
\* directly to EmergencyExit with emergency_detected true
LiveEmergencyExits(def) ==
    { e.current_state : e \in
        { e \in ReachableEngines(def) :
            \E response \in Messages :
                LET next == EngineSubmitFor(def, e, response)
                IN  /\ e.current_state # EMERGENCY_EXIT
                    /\ next.current_state = EMERGENCY_EXIT
                    /\ next.emergency_detected } }

\* C26: for each state S from Greeting through Resources there is a reachable
\* turn in which the engine moves directly from S to EmergencyExit because
\* emergency_detected is true.
C26_EveryEmergencyRuleLive ==
    (AllQuestionsDefined /\ definition.greeting_formats) =>
        GreetingThroughResources \subseteq LiveEmergencyExits(definition)

\* the keys that have an answer
AnsweredKeys(resp) == { resp[i].key : i \in 1..Len(resp) }

\* C27: a submit made in a state with a bound question stores the message as
\* the answer under that question's key, overwriting an earlier answer and
\* whether or not a transition follows, and leaves every other answer as it
\* was; a submit made in a state with no bound question leaves the answers
\* unchanged.
C27_AnswerRecordingFrame ==
    [][call'.op = "submit" =>
          LET key == get_question_by_state(definition, current_state)
          IN  IF key # ""
              THEN /\ Get(responses', key) = call'.msg
                   /\ AnsweredKeys(responses') = AnsweredKeys(responses) \cup {key}
                   /\ \A other \in AnsweredKeys(responses) \ {key} :
                         Get(responses', other) = Get(responses, other)
              ELSE responses' = responses]_vars

\* a second answer in Consent, "yes", given after one that left the engine in
\* Consent: the earlier answer was overwritten
C27_Witness ==
    /\ Len(conversation_log) = 4
    /\ conversation_log[1].event_type = "conversation_started"
    /\ conversation_log[3].state = CONSENT
    /\ conversation_log[4].state = CONSENT
    /\ call.op = "submit"
    /\ call.msg = YES
    /\ current_state = KNOWLEDGE_CHECK
    /\ responses = << [key |-> "consent", value |-> YES] >>

\* s is an initial part of t
IsPrefix(s, t) ==
    /\ Len(s) <= Len(t)
    /\ \A i \in 1..Len(s) : s[i] = t[i]

\* a history in the fixed order: an initial part of the normal sequence,
\* optionally followed by one final EmergencyExit
InFixedOrder(history) ==
    \/ IsPrefix(history, NormalSequence)
    \/ /\ Len(history) >= 2
       /\ history[Len(history)] = EMERGENCY_EXIT
       /\ IsPrefix(SubSeq(history, 1, Len(history) - 1), NormalSequence)

\* the single engine as a value
SingleEngine ==
    [ current_state      |-> current_state,
      state_history      |-> state_history,
      responses          |-> responses,
      emergency_detected |-> emergency_detected ]

\* C28: in every session started by begin the state history is an initial
\* part of Greeting, Consent, KnowledgeCheck, .., Wrapup, Completed, optionally
\* followed by one final EmergencyExit, so that no state is visited twice and
\* none is skipped; and the history after a submit is a function of the engine
\* before it and the message.
C28_FixedQuestionOrder ==
    /\ [](InFixedOrder(state_history))
    /\ [][call'.op = "submit" =>
            state_history' = EngineSubmit(SingleEngine, call'.msg).state_history]_vars

\* a whole questionnaire: the history runs from Greeting to Wrapup
C28_Witness ==
    /\ call.op = "submit"
    /\ current_state = WRAPUP
    /\ state_history = SubSeq(NormalSequence, 1, Len(NormalSequence) - 1)

\* C29: whenever the state machine takes the Error->Idle rule, the answers,
\* the emergency flag, the identity fields and the state history of the failed
\* session are discarded, leaving the machine as reset() would.
C29_ErrorToIdleIsFullReset ==
    [][( /\ call'.op = "process_response"
         /\ current_state = ERROR
         /\ current_state' = IDLE )
       => ( /\ state_history' = << >>
            /\ responses' = << >>
            /\ ~emergency_detected'
            /\ patient_name' = ""
            /\ time_of_day' = "" )]_vars


\* the bot apart from the record of the last call and what it returned
BotState(b) == [ f \in DOMAIN b \ {"call", "result"} |-> b[f] ]

\* a start while running returns False and starts nothing
StartRejectedWhileRunning ==
    (bot'.call.op = "start_conversation" /\ bot.is_running)
       => (bot'.result = Outcome("False") /\ BotState(bot') = BotState(bot))

\* an input or an end while not running returns None and changes nothing
NothingWithoutSession ==
    (bot'.call.op \in {"process_patient_input", "end_conversation"} /\ ~bot.is_running)
       => (bot'.result = Outcome("None") /\ BotState(bot') = BotState(bot))

\* an input while running returns a reply
InputAnswered ==
    (bot'.call.op = "process_patient_input" /\ bot.is_running)
       => (bot'.result.kind \in Replies /\ bot'.is_running)

\* an end while running returns the summary and leaves the bot not running
EndReturnsSummary ==
    (bot'.call.op = "end_conversation" /\ bot.is_running)
       => (bot'.result.kind = "summary" /\ ~bot'.is_running)

\* a start while not running, with an audio stream that opens, succeeds
StartAccepted ==
    (bot'.call.op = "start_conversation" /\ ~bot.is_running /\ bot'.call.opened)
       => (bot'.result = Outcome("True") /\ bot'.is_running)

\* C30: bot session protocol: a start while a conversation is running returns
\* False and starts nothing; an input or an end while none is running
\* returns None and changes nothing; while one is running every input gets
\* a reply, and an end returns the summary and leaves the bot not running,
\* after which a start is accepted again
C30_BotSessionProtocol ==
    [][ /\ StartRejectedWhileRunning
        /\ NothingWithoutSession
        /\ InputAnswered
        /\ EndReturnsSummary
        /\ StartAccepted ]_vars

C32_HistoryTracksState ==
    state_history # << >> => state_history[Len(state_history)] = current_state

\* EmergencyExit was entered on the consent answer "no", without a keyword
C33_Witness ==
    /\ current_state = EMERGENCY_EXIT
    /\ call.from_state = CONSENT
    /\ ~emergency_detected
    /\ ~keyword_heard
    /\ Get(responses, "consent") = NO

\* C33: no spurious emergency exit: the current state is EmergencyExit only if
\* the emergency flag is set or the recorded consent answer is "no"; in a
\* session none of whose messages had an emergency keyword, only if the
\* recorded consent answer is "no"
C33_NoSpuriousEmergencyExit ==
    current_state = EMERGENCY_EXIT
       => /\ emergency_detected \/ Get(responses, "consent") = NO
          /\ ~keyword_heard => Get(responses, "consent") = NO

\* the event log of a session begun on an engine that was reset
CleanStartLog ==
    IF definition.greeting_formats
    THEN << Event("conversation_started", "") >>
    ELSE << >>

\* C34: re-begin starts clean: a begin in a state other than Idle leaves what
\* a reset followed by that begin leaves: no answer, no emergency flag, the
\* history of the new session only, and the event log of the new session only
C34_ReBeginStartsClean ==
    [][(call'.op = "begin" /\ current_state # IDLE)
         => /\ responses' = << >>
            /\ ~emergency_detected'
            /\ state_history' = StartHistory(GREETING)
            /\ conversation_log' = CleanStartLog]_vars

\* the (question key, response text) pairs of an engine's answer map
PairsOf(resp) == { <<resp[i].key, resp[i].value>> : i \in 1..Len(resp) }

\* C35: persisted answers match the engine: while a conversation is running,
\* the (question key, response text) pairs stored for it are those of the
\* answers the engine has recorded
C35_PersistedAnswersMatchEngine ==
    (bot.is_running /\ bot.current_conversation_id # 0)
       => bot.storage[bot.current_conversation_id].responses
             = PairsOf(bot.conversation_flow.responses)

\* C36: emergency text only for patient emergencies: process_patient_input
\* returns the emergency response only on a turn in which the patient's input
\* had an emergency keyword or the engine entered EmergencyExit
C36_EmergencyTextOnlyForEmergencies ==
    [][(/\ bot'.call.op = "process_patient_input"
        /\ bot.is_running
        /\ bot'.result.kind = "emergency")
         => \/ medical_detect_emergency(ConstructedLLM.emergency_keywords, bot'.call.input)
            \/ /\ bot.conversation_flow.current_state # EMERGENCY_EXIT
               /\ bot'.conversation_flow.current_state = EMERGENCY_EXIT]_vars

\* RecordingManager._recording_loop runs: the thread is started when
\* is_recording is set and loops while it is set
RecordingLoopRuns(b) == b.is_recording

\* C37: recording manager state consistency: the manager has a conversation
\* id exactly while it is recording; after a start that returned None no id is
\* set; after a stop has returned, is_recording is false, the id is cleared
\* and the recording loop has ended
C37_RecordingStateConsistent ==
    /\ (bot.current_conversation_id # 0) <=> bot.is_recording
    /\ (bot.call.op = "start_conversation_recording" /\ bot.result = Outcome("None"))
          => (bot.current_conversation_id = 0 /\ ~AddAccepted(bot))
    /\ bot.call.op = "stop_conversation_recording"
          => /\ ~bot.is_recording
             /\ bot.current_conversation_id = 0
             /\ ~RecordingLoopRuns(bot)

\* C38: pause does not lose a recording: while the stream of a recording is
\* open, whatever pauses and resumes were made, stop_recording closes the
\* stream and, when frames were captured and the file can be written, writes
\* them and returns the path; start_recording never leaves two streams open
\* and never empties the frames of a recording whose stream is still open
C38_PauseKeepsRecording ==
    [][ /\ (recorder'.call.op = "stop_recording" /\ recorder.stream)
             => /\ ~recorder'.stream
                /\ recorder'.open_streams = 0
                /\ (recorder.audio_frames > 0 /\ recorder'.call.saved)
                      => /\ recorder'.result = "path"
                         /\ recorder'.files = Append(recorder.files, recorder.audio_frames)
        /\ recorder'.call.op = "start_recording"
             => /\ recorder'.open_streams <= 1
                /\ recorder.stream => recorder'.audio_frames = recorder.audio_frames ]_vars

\* the exchanges added last, oldest first: their numbers are consecutive and
\* end at the number of exchanges added
MostRecent(history, added) ==
    \A i \in 1..Len(history) : history[i].content = added - Len(history) + i

\* C39: bounded conversation memory: the history holds at most max_history
\* exchanges, and they are the most recently added ones in insertion order
C39_BoundedMemory ==
    /\ Len(memory.conversation_history) <= memory.max_history
    /\ MostRecent(memory.conversation_history, memory.added)

====
